---- MODULE Spec2Model ----
(***************************************************************************)
(* Model of src/main.rs: the work-stealing line aggregator.                *)
(*                                                                         *)
(* Bytes are their ASCII codes, a buffer is a sequence of bytes and the    *)
(* code's 0-based offsets are kept (At(d, i) is d[i] of the source).       *)
(* The model is the build with debug_assertions: an unwrap() of None, an   *)
(* out-of-range index and unreachable!() are panics of the thread.         *)
(***************************************************************************)
EXTENDS Integers, Sequences, FiniteSets, TLC

(* ------------------------------ bytes --------------------------------- *)
NL == 10
SEMI == 59
DOT == 46
MINUS == 45
ZERO == 48

(* ------------------------------ bounds -------------------------------- *)
MaxLines == 2
MaxChunk == 4
MaxThreads == 2
MaxObs == 3

\* capacity of one arena block, scaled down from 1024 * 1024
BUMP_CAP == 8

None == -1

At(d, i) == d[i + 1]

\* d[lo..hi) of the source
Slice(d, lo, hi) == SubSeq(d, lo + 1, hi)

SetMin(S) == CHOOSE x \in S : \A y \in S : x <= y

\* iter().enumerate().take(hi).skip(lo).find(|b| b == byte): the first index
\* in [lo, hi) holding byte, or None
Find(d, byte, lo, hi) ==
  LET S == {i \in lo..(hi - 1) : At(d, i) = byte}
  IN IF S = {} THEN None ELSE SetMin(S)

\* u8::wrapping_sub(b'0') as i16
WrappingSubZero(b) == (b + 256 - ZERO) % 256

I16Min(a, b) == IF a <= b THEN a ELSE b
I16Max(a, b) == IF a >= b THEN a ELSE b

(* --------------------------- arena allocator -------------------------- *)
\* no BumpAlloc: the worker is outside process_chunk
NoBump == [len |-> 0, ptr |-> 0]

\* BumpAlloc::new(): len 0 and a fresh block from new_chunk; a block is
\* identified by its ordinal among the nblocks blocks obtained so far
BumpNew(nblocks) == [len |-> 0, ptr |-> nblocks + 1]

\* BumpAlloc::alloc(len): the bump state after the call, the returned range
\* and the number of blocks obtained from the system allocator
BumpAlloc(b, len, nblocks) ==
  LET fresh == (b.len + len) > BUMP_CAP
      ptr == IF fresh THEN nblocks + 1 ELSE b.ptr
      off == IF fresh THEN 0 ELSE b.len
  IN [bump |-> [len |-> off + len, ptr |-> ptr],
      range |-> [ptr |-> ptr, off |-> off, len |-> len],
      nblocks |-> IF fresh THEN nblocks + 1 ELSE nblocks]

(* --------------------------- aggregation map -------------------------- *)
EmptyMap == [k \in {} |-> 0]

MeasurementRecord(count, sum, min, max) ==
  [count |-> count, sum |-> sum, min |-> min, max |-> max]

\* ModifyRecord with the min overwritten by the latest value
ModifyRecordMinLast(rec, value) ==
  MeasurementRecord(rec.count + 1, rec.sum + value, value, I16Max(rec.max, value))

\* ModifyRecord with the max left as first inserted
ModifyRecordKeepsMax(rec, value) ==
  MeasurementRecord(rec.count + 1, rec.sum + value, I16Min(rec.min, value), rec.max)

\* the and_modify closure of handle_entry
ModifyRecord(rec, value) ==
  MeasurementRecord(rec.count + 1, rec.sum + value,
                    I16Min(rec.min, value), I16Max(rec.max, value))

\* HandleEntry that copies the station into the arena on every call
HandleEntryAlwaysAllocs(m, b, nblocks, station, value) ==
  LET a == BumpAlloc(b, Len(station), nblocks)
  IN [map |-> IF station \in DOMAIN m
              THEN [m EXCEPT ![station] = ModifyRecord(m[station], value)]
              ELSE m @@ (station :> MeasurementRecord(1, value, value, value)),
      bump |-> a.bump, nblocks |-> a.nblocks,
      allocs |-> <<[ptr |-> a.range.ptr, off |-> a.range.off,
                    len |-> a.range.len, key |-> station]>>]

\* handle_entry(station, value) on a worker's map and arena
HandleEntry(m, b, nblocks, station, value) ==
  IF station \in DOMAIN m
  THEN [map |-> [m EXCEPT ![station] = ModifyRecord(m[station], value)],
        bump |-> b, allocs |-> << >>, nblocks |-> nblocks]
  ELSE LET a == BumpAlloc(b, Len(station), nblocks)
       IN [map |-> m @@ (station :> MeasurementRecord(1, value, value, value)),
           bump |-> a.bump, nblocks |-> a.nblocks,
           allocs |-> <<[ptr |-> a.range.ptr, off |-> a.range.off,
                         len |-> a.range.len, key |-> station]>>]

(* ------------------------------- parser ------------------------------- *)
\* DecodeValue with the fractional digit of "-d.f" added instead of subtracted
DecodeValueSignSlip(before_dot, after_dot) ==
  LET n == Len(before_dot)
      d(i) == WrappingSubZero(before_dot[i + 1])
      f == WrappingSubZero(after_dot)
  IN IF n = 1 THEN [ok |-> TRUE, value |-> d(0) * 10 + f]
     ELSE IF n = 2
       THEN IF before_dot[1] = MINUS
            THEN [ok |-> TRUE, value |-> (-d(1)) * 10 + f]
            ELSE [ok |-> TRUE, value |-> d(0) * 100 + d(1) * 10 + f]
     ELSE IF n = 3
       THEN [ok |-> TRUE, value |-> -(d(1) * 100 + d(2) * 10 + f)]
     ELSE [ok |-> FALSE, value |-> 0]

\* DecodeValue whose 3-byte arm tells "-dd" from "ddd" by the first byte
DecodeValueThreeDigitPositive(before_dot, after_dot) ==
  LET n == Len(before_dot)
      d(i) == WrappingSubZero(before_dot[i + 1])
      f == WrappingSubZero(after_dot)
  IN IF n = 1 THEN [ok |-> TRUE, value |-> d(0) * 10 + f]
     ELSE IF n = 2
       THEN IF before_dot[1] = MINUS
            THEN [ok |-> TRUE, value |-> (-d(1)) * 10 - f]
            ELSE [ok |-> TRUE, value |-> d(0) * 100 + d(1) * 10 + f]
     ELSE IF n = 3
       THEN IF before_dot[1] = MINUS
            THEN [ok |-> TRUE, value |-> -(d(1) * 100 + d(2) * 10 + f)]
            ELSE [ok |-> TRUE, value |-> d(0) * 1000 + d(1) * 100 + d(2) * 10 + f]
     ELSE [ok |-> FALSE, value |-> 0]


\* the match on before_dot.len(); ok is FALSE in the unreachable!() arm
DecodeValue(before_dot, after_dot) ==
  LET n == Len(before_dot)
      d(i) == WrappingSubZero(before_dot[i + 1])
      f == WrappingSubZero(after_dot)
  IN IF n = 1 THEN [ok |-> TRUE, value |-> d(0) * 10 + f]
     ELSE IF n = 2
       THEN IF before_dot[1] = MINUS
            THEN [ok |-> TRUE, value |-> (-d(1)) * 10 - f]
            ELSE [ok |-> TRUE, value |-> d(0) * 100 + d(1) * 10 + f]
     ELSE IF n = 3
       THEN [ok |-> TRUE, value |-> -(d(1) * 100 + d(2) * 10 + f)]
     ELSE [ok |-> FALSE, value |-> 0]

\* ParseStep that slices data[dot + 3..] without the bounds check of get
ParseStepIndexesRemainder(d, s, e) ==
  LET semicolon == Find(d, SEMI, s, e)
      rem == semicolon + 1
      dot == Find(d, DOT, rem, e)
      Panic == [panic |-> TRUE, station |-> << >>, value |-> 0, next |-> e]
  IN IF semicolon = None THEN Panic
     ELSE IF dot = None THEN Panic
     ELSE IF dot + 1 >= e THEN Panic
     ELSE IF dot + 3 > e THEN Panic
     ELSE LET v == DecodeValue(Slice(d, rem, dot), At(d, dot + 1))
          IN IF ~v.ok THEN Panic
             ELSE [panic |-> FALSE, station |-> Slice(d, s, semicolon),
                   value |-> v.value, next |-> dot + 3]

\* ParseStep that hands the same slice to the next iteration
ParseStepNoAdvance(d, s, e) ==
  LET semicolon == Find(d, SEMI, s, e)
      rem == semicolon + 1
      dot == Find(d, DOT, rem, e)
      Panic == [panic |-> TRUE, station |-> << >>, value |-> 0, next |-> e]
  IN IF semicolon = None THEN Panic
     ELSE IF dot = None THEN Panic
     ELSE IF dot + 1 >= e THEN Panic
     ELSE LET v == DecodeValue(Slice(d, rem, dot), At(d, dot + 1))
          IN IF ~v.ok THEN Panic
             ELSE [panic |-> FALSE, station |-> Slice(d, s, semicolon),
                   value |-> v.value, next |-> s]

\* one iteration of the while loop of process_chunk over data[s..e):
\* panic, or the entry handed to handle_entry and the start of the remainder
\* (e when the loop breaks or the remainder is empty)
ParseStep(d, s, e) ==
  LET semicolon == Find(d, SEMI, s, e)
      rem == semicolon + 1
      dot == Find(d, DOT, rem, e)
      Panic == [panic |-> TRUE, station |-> << >>, value |-> 0, next |-> e]
  IN IF semicolon = None THEN Panic
     ELSE IF dot = None THEN Panic
     ELSE IF dot + 1 >= e THEN Panic
     ELSE LET v == DecodeValue(Slice(d, rem, dot), At(d, dot + 1))
          IN IF ~v.ok THEN Panic
             ELSE [panic |-> FALSE, station |-> Slice(d, s, semicolon),
                   value |-> v.value,
                   next |-> IF dot + 3 > e THEN e ELSE dot + 3]

(* ------------------------- boundary adjustment ------------------------ *)
\* the break of the loop of work, taken at the buffer length already
ExhaustedPastLength(offset, len) == offset > len

\* the break of the loop of work: the fetched offset is outside the buffer
Exhausted(offset, len) == offset >= len


\* AdjustStart without the + 1 that skips the newline
AdjustStartOnNewline(d, start, end) ==
  IF start # 0 THEN Find(d, NL, start, end) ELSE start

\* the start of the span after the skip to the first newline; None when the
\* raw span [start, end) holds no newline
AdjustStart(d, start, end) ==
  IF start # 0
  THEN LET first_newline == Find(d, NL, start, end)
       IN IF first_newline = None THEN None ELSE first_newline + 1
  ELSE start

\* AdjustEnd that leaves the raw end where the chunk ends
AdjustEndRaw(d, end) == end

\* the end of the span: the first newline at or after the raw end
AdjustEnd(d, end) ==
  LET n == Find(d, NL, end, Len(d))
  IN IF n = None THEN Len(d) ELSE n

(* -------------------------------- merge ------------------------------- *)
\* MergeRecord with the max taken from the partial record
MergeRecordLastMax(rec, partial) ==
  MeasurementRecord(rec.count + partial.count, rec.sum + partial.sum,
                    I16Min(rec.min, partial.min), partial.max)

\* the and_modify closure of the fold in main
MergeRecord(rec, partial) ==
  MeasurementRecord(rec.count + partial.count, rec.sum + partial.sum,
                    I16Min(rec.min, partial.min), I16Max(rec.max, partial.max))

\* MergeMap that keeps only the keys of the joined map
MergeMapPartialKeys(m, res) ==
  [k \in DOMAIN res |->
     IF k \in DOMAIN m THEN MergeRecord(m[k], res[k]) ELSE res[k]]

\* res.into_iter().for_each(..): every entry of the joined map folded into m
MergeMap(m, res) ==
  [k \in DOMAIN m \cup DOMAIN res |->
     IF k \in DOMAIN m
     THEN IF k \in DOMAIN res THEN MergeRecord(m[k], res[k]) ELSE m[k]
     ELSE res[k]]

(* ------------------------------- output ------------------------------- *)
\* SliceCmp with the lengths compared the wrong way round
RECURSIVE SliceCmpLongerFirst(_, _, _)
SliceCmpLongerFirst(a, b, i) ==
  IF i > Len(a) \/ i > Len(b)
  THEN IF Len(a) < Len(b) THEN 1 ELSE IF Len(a) > Len(b) THEN -1 ELSE 0
  ELSE IF a[i] < b[i] THEN -1
  ELSE IF a[i] > b[i] THEN 1
  ELSE SliceCmpLongerFirst(a, b, i + 1)

\* Ord for [u8]: the first differing byte decides, then the lengths
RECURSIVE SliceCmp(_, _, _)
SliceCmp(a, b, i) ==
  IF i > Len(a) \/ i > Len(b)
  THEN IF Len(a) < Len(b) THEN -1 ELSE IF Len(a) > Len(b) THEN 1 ELSE 0
  ELSE IF a[i] < b[i] THEN -1
  ELSE IF a[i] > b[i] THEN 1
  ELSE SliceCmp(a, b, i + 1)

\* map.into_iter().collect() and sort_unstable_by_key on the station
RECURSIVE SortedKeys(_)
SortedKeys(S) ==
  IF S = {} THEN << >>
  ELSE LET least == CHOOSE x \in S : \A y \in S : SliceCmp(x, y, 1) <= 0
       IN <<least>> \o SortedKeys(S \ {least})

SortStations(m) ==
  LET keys == SortedKeys(DOMAIN m)
  IN [i \in 1..Len(keys) |-> [station |-> keys[i], rec |-> m[keys[i]]]]

\* i64 division truncates toward zero
TruncDiv(a, b) ==
  IF (a >= 0) = (b > 0)
  THEN (IF a >= 0 THEN a ELSE -a) \div (IF b > 0 THEN b ELSE -b)
  ELSE -((IF a >= 0 THEN a ELSE -a) \div (IF b > 0 THEN b ELSE -b))

\* sum ^ (count as i64) >= 0: the sign bits of the operands agree
XorNonNegative(a, b) == (a < 0) = (b < 0)

\* Mean with the half always added, whatever the sign of the sum
MeanAddsHalf(sum, count) == TruncDiv(sum + TruncDiv(count, 2), count)

\* the mean of a record, in scaled units
Mean(sum, count) ==
  IF XorNonNegative(sum, count)
  THEN TruncDiv(sum + TruncDiv(count, 2), count)
  ELSE TruncDiv(sum - TruncDiv(count, 2), count)

todigit(n) == (n % 256) + ZERO

\* format_fixed whose first arm is missing
format_fixedNoHundreds(n) ==
  IF n >= 0 /\ n <= 99
    THEN [ok |-> TRUE, bytes |-> <<todigit((n \div 10) % 10), DOT, todigit(n % 10)>>]
  ELSE IF n >= -99 /\ n <= -1
    THEN LET m == -n
         IN [ok |-> TRUE, bytes |->
               <<MINUS, todigit((m \div 10) % 10), DOT, todigit(m % 10)>>]
  ELSE IF n >= -999 /\ n <= -100
    THEN LET m == -n
         IN [ok |-> TRUE, bytes |->
               <<MINUS, todigit((m \div 100) % 10), todigit((m \div 10) % 10), DOT,
                 todigit(m % 10)>>]
  ELSE [ok |-> FALSE, bytes |-> << >>]

\* format_fixed(buf, n): the bytes of the returned slice; ok is FALSE in the
\* arm marked unreachable
format_fixed(n) ==
  IF n >= 100 /\ n <= 999
    THEN [ok |-> TRUE, bytes |->
            <<todigit(n \div 100), todigit((n \div 10) % 10), DOT, todigit(n % 10)>>]
  ELSE IF n >= 0 /\ n <= 99
    THEN [ok |-> TRUE, bytes |-> <<todigit((n \div 10) % 10), DOT, todigit(n % 10)>>]
  ELSE IF n >= -99 /\ n <= -1
    THEN LET m == -n
         IN [ok |-> TRUE, bytes |->
               <<MINUS, todigit((m \div 10) % 10), DOT, todigit(m % 10)>>]
  ELSE IF n >= -999 /\ n <= -100
    THEN LET m == -n
         IN [ok |-> TRUE, bytes |->
               <<MINUS, todigit((m \div 100) % 10), todigit((m \div 10) % 10), DOT,
                 todigit(m % 10)>>]
  ELSE [ok |-> FALSE, bytes |-> << >>]

\* the body of the output loop for one entry: the bytes handed to the writer
\* and whether the iteration completed (a format_fixed panic cuts it short)
WriteEntry(station, rec) ==
  LET mean == Mean(rec.sum, rec.count)
      fmin == format_fixed(rec.min)
      fmean == format_fixed(mean)
      fmax == format_fixed(rec.max)
      b1 == station \o <<SEMI>>
      b2 == b1 \o fmin.bytes \o <<SEMI>>
      b3 == b2 \o fmean.bytes \o <<SEMI>>
  IN IF ~fmin.ok THEN [ok |-> FALSE, mean |-> mean, bytes |-> b1]
     ELSE IF ~fmean.ok THEN [ok |-> FALSE, mean |-> mean, bytes |-> b2]
     ELSE IF ~fmax.ok THEN [ok |-> FALSE, mean |-> mean, bytes |-> b3]
     ELSE [ok |-> TRUE, mean |-> mean, bytes |-> b3 \o fmax.bytes \o <<NL>>]

(* ------------------------------ inputs -------------------------------- *)
\* "A;1.5"  "AB;12.3"  "A;-12.5"  (with their newlines 6, 8 and 8 bytes)
Records ==
  { <<65, 59, 49, 46, 53>>,
    <<65, 66, 59, 49, 50, 46, 51>>,
    <<65, 59, 45, 49, 50, 46, 53>> }

RECURSIVE JoinedLines(_)
JoinedLines(n) ==
  IF n = 1 THEN Records
  ELSE {b \o <<NL>> \o r : b \in JoinedLines(n - 1), r \in Records}

\* "Hamburg;12.0\nHamburg;8.0\nBerlin;5.5\n"
Hamburg == <<72, 97, 109, 98, 117, 114, 103>>
Berlin == <<66, 101, 114, 108, 105, 110>>
HamburgBuffer ==
  Hamburg \o <<SEMI, 49, 50, DOT, 48, NL>> \o
  Hamburg \o <<SEMI, 56, DOT, 48, NL>> \o
  Berlin \o <<SEMI, 53, DOT, 53, NL>>

\* "A;1.5\nStuttgart;1.5\n": a station of BUMP_CAP + 1 bytes
Stuttgart == <<83, 116, 117, 116, 116, 103, 97, 114, 116>>
LongKeyBuffer ==
  <<65, SEMI, 49, DOT, 53, NL>> \o Stuttgart \o <<SEMI, 49, DOT, 53, NL>>

\* buffers of valid records, with and without the final newline
ValidBuffers ==
  LET B == UNION {JoinedLines(n) : n \in 1..MaxLines}
  IN B \cup {b \o <<NL>> : b \in B}

\* chunk sizes for the 36 bytes of HamburgBuffer: inside the first line, its
\* newline on the boundary, the second line starting on the boundary, the
\* whole buffer in one or two chunks
HamburgChunks == {7, 12, 13, 18, 36}

\* the inputs of a run: a buffer and the chunk size
ValidInputs ==
  (ValidBuffers \X (1..MaxChunk)) \cup ({HamburgBuffer} \X HamburgChunks)

\* one key observed 1..MaxObs times with values that round both ways:
\* "A;0.2" "A;0.3" "A;-0.2" "A;-0.3" "A;99.9" "A;-99.9", every line ended by
\* a newline, the whole buffer handed out as one chunk
MeanRecords ==
  { <<65, SEMI, 48, DOT, 50>>, <<65, SEMI, 48, DOT, 51>>,
    <<65, SEMI, MINUS, 48, DOT, 50>>, <<65, SEMI, MINUS, 48, DOT, 51>>,
    <<65, SEMI, 57, 57, DOT, 57>>, <<65, SEMI, MINUS, 57, 57, DOT, 57>> }

RECURSIVE MeanBuffers(_)
MeanBuffers(n) ==
  IF n = 0 THEN {<< >>}
  ELSE {b \o r \o <<NL>> : b \in MeanBuffers(n - 1), r \in MeanRecords}

MeanInputs ==
  {<<b, Len(b)>> : b \in UNION {MeanBuffers(n) : n \in 1..MaxObs}}

\* records "key;value" over the whole value grammar the input format names:
\* an optional '-', 1 to 3 digits, '.', one digit (digits 0, 1, 9; keys "A",
\* "AB"), and the three records "X;12.3" "X;-4.5" "X;0.0"
GrammarDigits == {48, 49, 57}

GrammarIntegers ==
  UNION {[1..n -> GrammarDigits] : n \in 1..3}

GrammarValues ==
  LET U == {i \o <<DOT, f>> : i \in GrammarIntegers, f \in GrammarDigits}
  IN U \cup {<<MINUS>> \o u : u \in U}

GrammarRecords ==
  {k \o <<SEMI>> \o v : k \in {<<65>>, <<65, 66>>}, v \in GrammarValues}
  \cup { <<88, SEMI, 49, 50, DOT, 51>>, <<88, SEMI, MINUS, 52, DOT, 53>>,
         <<88, SEMI, 48, DOT, 48>> }

\* lines that break the record format, and a good one:
\* "A1.0" "A;10" "A;.5" "A;1234.5" "A;1" "B.5" and "B;2.0"
BrokenLines ==
  { <<65, 49, DOT, 48>>, <<65, SEMI, 49, 48>>, <<65, SEMI, DOT, 53>>,
    <<65, SEMI, 49, 50, 51, 52, DOT, 53>>, <<65, SEMI, 49>>, <<66, DOT, 53>>,
    <<66, SEMI, 50, DOT, 48>> }

BrokenBuffers ==
  LET B == BrokenLines \cup
           {a \o <<NL>> \o b : a \in BrokenLines, b \in BrokenLines}
  IN B \cup {b \o <<NL>> : b \in B}

\* the inputs of the parser runs: each grammar record alone in the buffer,
\* handed out whole, and the buffers of broken lines under every chunk size
ParseInputs ==
  {<<r, Len(r)>> : r \in GrammarRecords}
  \cup {<<r \o <<NL>>, Len(r) + 1>> : r \in GrammarRecords}
  \cup (BrokenBuffers \X (1..MaxChunk))
  \cup {<<b, Len(b)>> : b \in BrokenBuffers}

(* ------------------------------- state -------------------------------- *)
VARIABLES
  data,        \* the mapped file
  work_chunk,  \* WORK_CHUNK, the bytes handed out per fetch
  threads,     \* available_parallelism
  cursor,      \* the shared AtomicUsize
  pc,          \* per worker: "fetch", "parse", "done", "panicked", and
               \* "unspawned" when main ended before the scope
  start,       \* per worker: start of the slice still to parse
  end,         \* per worker: end of the slice being parsed
  map,         \* per worker: its map; map[0] is the map main merges into
  bump,        \* per worker: the BumpAlloc of the running process_chunk
  nblocks,     \* blocks obtained from the system allocator (new_chunk calls)
  allocs,      \* per worker: the ranges alloc has returned and the key
               \* copied into each, in order
  obs,         \* per worker: the entries handed to handle_entry, in order
  spans,       \* per worker: the adjusted spans it has parsed
  fetched,     \* the values fetch_add has returned, in the cursor's order
  calls,       \* the raw spans process_chunk was called with, in that order
  joined,      \* number of handles main has joined and folded
  main_pc,     \* main: "scope", "write", "exit", "panicked"
  stations,    \* the sorted Vec of (station, record)
  written,     \* the entries written: station, min, mean, max
  output       \* the bytes handed to the BufWriter

wvars == <<start, end, bump, nblocks, allocs, obs, spans, fetched, calls>>
mvars == <<main_pc, stations, written, output>>
vars == <<data, work_chunk, threads, cursor, pc, map, joined, wvars, mvars>>

\* worker 0 is the main thread, 1..threads-1 are the spawned handles; the
\* initial state is the one after the spawn loop, a thread not yet spawned
\* being the same as one that has not yet taken a step
Workers == 0..(threads - 1)

InitWith(Inputs, Threads) ==
  /\ \E in \in Inputs : data = in[1] /\ work_chunk = in[2]
  /\ threads \in Threads
  /\ cursor = 0
  /\ pc = [w \in Workers |-> "fetch"]
  /\ start = [w \in Workers |-> 0]
  /\ end = [w \in Workers |-> 0]
  /\ map = [w \in Workers |-> EmptyMap]
  /\ bump = [w \in Workers |-> NoBump]
  /\ nblocks = 0
  /\ allocs = [w \in Workers |-> << >>]
  /\ obs = [w \in Workers |-> << >>]
  /\ spans = [w \in Workers |-> {}]
  /\ fetched = << >>
  /\ calls = << >>
  /\ joined = 0
  /\ main_pc = "scope"
  /\ stations = << >>
  /\ written = << >>
  /\ output = << >>

Init == InitWith(ValidInputs \cup MeanInputs, 1..MaxThreads)

\* File::open or Mmap::map failed: the unwrap panics in main before the
\* cursor and the scope exist, no thread is ever spawned
InitOpenFailed ==
  /\ data = << >>
  /\ work_chunk \in 1..MaxChunk
  /\ threads \in 1..MaxThreads
  /\ cursor = 0
  /\ pc = [w \in Workers |-> "unspawned"]
  /\ start = [w \in Workers |-> 0]
  /\ end = [w \in Workers |-> 0]
  /\ map = [w \in Workers |-> EmptyMap]
  /\ bump = [w \in Workers |-> NoBump]
  /\ nblocks = 0
  /\ allocs = [w \in Workers |-> << >>]
  /\ obs = [w \in Workers |-> << >>]
  /\ spans = [w \in Workers |-> {}]
  /\ fetched = << >>
  /\ calls = << >>
  /\ joined = 0
  /\ main_pc = "panicked"
  /\ stations = << >>
  /\ written = << >>
  /\ output = << >>

\* the runs over the value grammar and over broken lines, and the run whose
\* input cannot be opened
InitParse == InitWith(ParseInputs, 1..MaxThreads) \/ InitOpenFailed

(* ------------------------------ workers ------------------------------- *)
\* one turn of the loop of work: the fetch_add and, when the offset is inside
\* the buffer, process_chunk up to its while loop
Fetch(w) ==
  /\ pc[w] = "fetch"
  /\ cursor' = cursor + work_chunk
  /\ fetched' = Append(fetched, cursor)
  /\ LET offset == cursor
         raw_end == IF offset + work_chunk <= Len(data)
                    THEN offset + work_chunk ELSE Len(data)
     IN IF Exhausted(offset, Len(data))
        THEN /\ pc' = [pc EXCEPT ![w] = "done"]
             /\ UNCHANGED <<start, end, bump, nblocks, spans, calls>>
        ELSE LET s == AdjustStart(data, offset, raw_end)
                 e == AdjustEnd(data, raw_end)
             IN /\ nblocks' = nblocks + 1
                /\ calls' = Append(calls, [start |-> offset, end |-> raw_end])
                /\ IF s = None
                   THEN UNCHANGED <<pc, start, end, bump, spans>>
                   ELSE /\ start' = [start EXCEPT ![w] = s]
                        /\ end' = [end EXCEPT ![w] = e]
                        /\ spans' = [spans EXCEPT ![w] = @ \cup
                               {[offset |-> offset, start |-> s, end |-> e]}]
                        /\ bump' = [bump EXCEPT ![w] =
                                      IF s < e THEN BumpNew(nblocks) ELSE NoBump]
                        /\ pc' = [pc EXCEPT ![w] =
                                    IF s < e THEN "parse" ELSE "fetch"]
  /\ UNCHANGED <<data, work_chunk, threads, map, allocs, obs, joined, mvars>>

\* the slice returned by alloc ends past the BUMP_CAP bytes of its block
PastBlock(as) == \E i \in DOMAIN as : as[i].off + as[i].len > BUMP_CAP

\* one iteration of the while loop of process_chunk
ParseRecord(w) ==
  /\ pc[w] = "parse"
  /\ LET r == ParseStep(data, start[w], end[w])
     IN IF r.panic
        THEN /\ pc' = [pc EXCEPT ![w] = "panicked"]
             /\ UNCHANGED <<start, map, bump, nblocks, allocs, obs>>
        ELSE LET h == HandleEntry(map[w], bump[w], nblocks, r.station, r.value)
                 more == r.next < end[w]
             IN \/ /\ map' = [map EXCEPT ![w] = h.map]
                   /\ bump' = [bump EXCEPT ![w] = IF more THEN h.bump ELSE NoBump]
                   /\ nblocks' = h.nblocks
                   /\ allocs' = [allocs EXCEPT ![w] = @ \o h.allocs]
                   /\ obs' = [obs EXCEPT ![w] = Append(@, <<r.station, r.value>>)]
                   /\ start' = [start EXCEPT ![w] = r.next]
                   /\ pc' = [pc EXCEPT ![w] = IF more THEN "parse" ELSE "fetch"]
                \* copy_from_nonoverlapping past the end of the block is
                \* undefined: the copy may also end the thread
                \/ /\ PastBlock(h.allocs)
                   /\ nblocks' = h.nblocks
                   /\ allocs' = [allocs EXCEPT ![w] = @ \o h.allocs]
                   /\ pc' = [pc EXCEPT ![w] = "panicked"]
                   /\ UNCHANGED <<start, map, bump, obs>>
  /\ UNCHANGED <<data, work_chunk, threads, cursor, end, spans, fetched,
                 calls, joined, mvars>>

(* -------------------------------- main -------------------------------- *)
\* JoinMerge that folds the next handle's map without waiting for its thread
JoinMergeNoWait ==
  /\ main_pc = "scope"
  /\ pc[0] = "done"
  /\ joined < threads - 1
  /\ LET h == joined + 1
     IN IF pc[h] = "panicked"
        THEN /\ main_pc' = "panicked"
             /\ UNCHANGED <<map, joined>>
        ELSE /\ map' = [map EXCEPT ![0] = MergeMap(map[0], map[h])]
             /\ joined' = joined + 1
             /\ UNCHANGED main_pc
  /\ UNCHANGED <<data, work_chunk, threads, cursor, pc, wvars, stations,
                 written, output>>

\* JoinMerge that takes an empty map for a thread that panicked
JoinMergeIgnoresPanic ==
  /\ main_pc = "scope"
  /\ pc[0] = "done"
  /\ joined < threads - 1
  /\ LET h == joined + 1
     IN /\ pc[h] \in {"done", "panicked"}
        /\ map' = [map EXCEPT ![0] =
                     IF pc[h] = "panicked" THEN @ ELSE MergeMap(@, map[h])]
        /\ joined' = joined + 1
        /\ UNCHANGED main_pc
  /\ UNCHANGED <<data, work_chunk, threads, cursor, pc, wvars, stations,
                 written, output>>


\* handles.into_iter().for_each: main, back from its own work, joins the next
\* handle, which blocks until that thread has ended, and folds its map into
\* its own; the unwrap of a panicked thread's result panics
JoinMerge ==
  /\ main_pc = "scope"
  /\ pc[0] = "done"
  /\ joined < threads - 1
  /\ LET h == joined + 1
     IN /\ pc[h] \in {"done", "panicked"}
        /\ IF pc[h] = "panicked"
           THEN /\ main_pc' = "panicked"
                /\ UNCHANGED <<map, joined>>
           ELSE /\ map' = [map EXCEPT ![0] = MergeMap(map[0], map[h])]
                /\ joined' = joined + 1
                /\ UNCHANGED main_pc
  /\ UNCHANGED <<data, work_chunk, threads, cursor, pc, wvars, stations,
                 written, output>>

\* the scope ends when every thread has ended: a panic of main's own work
\* propagates, otherwise the merged map is collected and sorted
CollectSorted ==
  /\ main_pc = "scope"
  /\ \A w \in Workers : pc[w] \in {"done", "panicked"}
  /\ IF pc[0] = "panicked"
     THEN main_pc' = "panicked" /\ UNCHANGED stations
     ELSE /\ joined = threads - 1
          /\ stations' = SortStations(map[0])
          /\ main_pc' = IF DOMAIN map[0] = {} THEN "exit" ELSE "write"
  /\ UNCHANGED <<data, work_chunk, threads, cursor, pc, map, joined, wvars,
                 written, output>>

\* one iteration of the output loop
WriteLine ==
  /\ main_pc = "write"
  /\ LET e == stations[Len(written) + 1]
         r == WriteEntry(e.station, e.rec)
     IN /\ output' = output \o r.bytes
        /\ IF r.ok
           THEN /\ written' = Append(written,
                      [station |-> e.station, min |-> e.rec.min,
                       mean |-> r.mean, max |-> e.rec.max])
                /\ main_pc' = IF Len(written) + 1 = Len(stations)
                              THEN "exit" ELSE "write"
           ELSE main_pc' = "panicked" /\ UNCHANGED written
  /\ UNCHANGED <<data, work_chunk, threads, cursor, pc, map, joined, wvars,
                 stations>>

Next ==
  \/ \E w \in Workers : Fetch(w)
  \/ \E w \in Workers : ParseRecord(w)
  \/ JoinMerge
  \/ CollectSorted
  \/ WriteLine

Spec == Init /\ [][Next]_vars

SpecParse == InitParse /\ [][Next]_vars

\* the scheduler keeps running some thread that can take a step
\* the runs whose termination is checked: the buffers of at most two chunks
\* of the largest size, and the Hamburg buffer
FairInputs ==
  ({b \in ValidBuffers : Len(b) <= 2 * MaxChunk} \X (1..MaxChunk))
    \cup ({HamburgBuffer} \X HamburgChunks)

InitFair == InitWith(FairInputs, 1..MaxThreads)

SpecFair == InitFair /\ [][Next]_vars /\ WF_vars(Next)

\* the runs over "A;1.5\nStuttgart;1.5\n": the station of the second line
\* is longer than a block of the arena
InitLongKey == InitWith({LongKeyBuffer} \X (1..MaxChunk), 1..MaxThreads)

SpecLongKey == InitLongKey /\ [][Next]_vars

\* the runs with main and two spawned threads
InitJoin == InitWith(ValidInputs, {3})

SpecJoin == InitJoin /\ [][Next]_vars

(* ===================== the lines of a buffer ========================== *)
\* a line starts at offset 0 and after every newline
LineStarts(d) == {p \in 0..(Len(d) - 1) : p = 0 \/ At(d, p - 1) = NL}

\* the offset of the newline that ends the line starting at p, or the length
LineEnd(d, p) ==
  LET S == {q \in p..(Len(d) - 1) : At(d, q) = NL}
  IN IF S = {} THEN Len(d) ELSE SetMin(S)

AllDone == \A w \in Workers : pc[w] = "done"
AllEnded == \A w \in Workers : pc[w] \in {"done", "panicked"}
Merged == main_pc \in {"write", "exit"}

\* what one worker makes of the buffer taking its lines in order, one at a
\* time, from the first to the last
RECURSIVE SequentialFrom(_, _, _)
SequentialFrom(d, p, m) ==
  IF p >= Len(d) THEN m
  ELSE LET q == LineEnd(d, p)
           r == ParseStep(d, p, q)
       IN SequentialFrom(d, q + 1,
            HandleEntry(m, NoBump, 0, r.station, r.value).map)

SequentialMap(d) == SequentialFrom(d, 0, EmptyMap)

\* C1: once main has left the scope, the merged map is, key for key, the map
\* one worker makes of the whole buffer line by line, for every buffer of
\* valid records, worker count, chunk size and interleaving of the fetches.
C1_MergedEqualsSequential == Merged => map[0] = SequentialMap(data)

\* two workers both contributed to one key and main merged them
C1_Witness ==
  /\ main_pc = "exit"
  /\ threads >= 2
  /\ \E k \in DOMAIN map[1] : k \in DOMAIN map[0] /\ map[0][k].count > map[1][k].count
  /\ obs[0] # << >>

AllSpans == UNION {spans[w] : w \in Workers}

\* the spans of S that hold the whole line [p, q)
SpansHolding(S, p, q) == {s \in S : s.start <= p /\ q <= s.end}

\* the line [p, q) lies inside span s or wholly outside of it
NotSplit(s, p, q) ==
  \/ s.start <= p /\ q <= s.end
  \/ q < s.start
  \/ p >= s.end

RECURSIVE ObsCount(_)
ObsCount(w) == IF w < 0 THEN 0 ELSE Len(obs[w]) + ObsCount(w - 1)

\* C2: no line is ever inside two adjusted spans or cut by a span's edge, and
\* when every worker has returned each line is inside exactly one span and
\* has been handed to handle_entry once.
C2_EachLineInOneSpan ==
  LET S == AllSpans
      done == AllDone
  IN /\ \A p \in LineStarts(data) :
          LET q == LineEnd(data, p)
              H == SpansHolding(S, p, q)
          IN /\ Cardinality(H) <= 1
             /\ \A s \in S : NotSplit(s, p, q)
             /\ done => Cardinality(H) = 1
     /\ done => ObsCount(threads - 1) = Cardinality(LineStarts(data))

\* all workers returned; a line starts exactly on a chunk boundary, a line is
\* longer than the chunk, and both workers parsed a span
C2_Witness ==
  /\ AllDone
  /\ work_chunk >= 2
  /\ threads >= 2
  /\ \E p \in LineStarts(data) : p > 0 /\ p % work_chunk = 0
  /\ \E p \in LineStarts(data) : LineEnd(data, p) - p > work_chunk
  /\ \A w \in Workers : spans[w] # {}

(* ===================== the expected output ============================ *)
\* byte-wise lexicographic order
BytesLess(a, b) ==
  \E k \in 1..(Len(a) + 1) :
    /\ \A i \in 1..(k - 1) : i <= Len(b) /\ a[i] = b[i]
    /\ \/ k = Len(a) + 1 /\ k <= Len(b)
       \/ k <= Len(a) /\ k <= Len(b) /\ a[k] < b[k]

\* the value of a string of decimal digits
RECURSIVE DigitsValue(_)
DigitsValue(ds) ==
  IF ds = << >> THEN 0
  ELSE DigitsValue(SubSeq(ds, 1, Len(ds) - 1)) * 10 + (ds[Len(ds)] - ZERO)

\* ten times the decimal number written by v (one digit after the dot)
TimesTen(v) ==
  LET neg == v[1] = MINUS
      body == IF neg THEN Tail(v) ELSE v
      digits == SelectSeq(body, LAMBDA c : c # DOT)
  IN IF neg THEN -DigitsValue(digits) ELSE DigitsValue(digits)

\* key and value text of the line starting at p
LineKey(d, p) == Slice(d, p, Find(d, SEMI, p, LineEnd(d, p)))
LineValue(d, p) == Slice(d, Find(d, SEMI, p, LineEnd(d, p)) + 1, LineEnd(d, p))

KeysOf(d) == {LineKey(d, p) : p \in LineStarts(d)}
ValuesOf(d, k) == {TimesTen(LineValue(d, p)) : p \in {q \in LineStarts(d) : LineKey(d, q) = k}}

RECURSIVE TotalOf(_, _)
TotalOf(d, P) ==
  IF P = {} THEN 0
  ELSE LET p == CHOOSE q \in P : TRUE
       IN TimesTen(LineValue(d, p)) + TotalOf(d, P \ {p})

Abs(n) == IF n < 0 THEN -n ELSE n

\* m is sum/count rounded to the nearest integer, halves away from zero
RoundsHalfAway(m, sum, count) ==
  /\ 2 * count * Abs(m) <= 2 * Abs(sum) + count
  /\ 2 * Abs(sum) + count < 2 * count * (Abs(m) + 1)
  /\ (sum > 0 => m >= 0) /\ (sum < 0 => m <= 0)

\* decimal text of n >= 0 without leading zeros
RECURSIVE Decimal(_)
Decimal(n) == IF n < 10 THEN <<ZERO + n>> ELSE Decimal(n \div 10) \o <<ZERO + (n % 10)>>

\* a number in scaled units as text with one digit after the dot
OneDecimal(n) ==
  (IF n < 0 THEN <<MINUS>> ELSE << >>) \o Decimal(Abs(n) \div 10) \o <<DOT, ZERO + (Abs(n) % 10)>>

\* the line "key;min;mean;max\n" for key k of buffer d
ExpectedLine(d, k) ==
  LET P == {p \in LineStarts(d) : LineKey(d, p) = k}
      V == ValuesOf(d, k)
      lo == CHOOSE x \in V : \A y \in V : x <= y
      hi == CHOOSE x \in V : \A y \in V : x >= y
      sum == TotalOf(d, P)
      mean == CHOOSE m \in lo..hi : RoundsHalfAway(m, sum, Cardinality(P))
  IN k \o <<SEMI>> \o OneDecimal(lo) \o <<SEMI>> \o OneDecimal(mean)
       \o <<SEMI>> \o OneDecimal(hi) \o <<NL>>

RECURSIVE Concat(_)
Concat(ss) == IF ss = << >> THEN << >> ELSE Head(ss) \o Concat(Tail(ss))

\* the keys of d in strictly ascending byte order
AscendingKeys(d) ==
  LET K == KeysOf(d)
  IN CHOOSE q \in [1..Cardinality(K) -> K] :
       \A i, j \in 1..Cardinality(K) : i < j => BytesLess(q[i], q[j])

ExpectedOutput(d) ==
  LET q == AscendingKeys(d)
  IN Concat([i \in 1..Len(q) |-> ExpectedLine(d, q[i])])

\* "Berlin;5.5;5.5;5.5\nHamburg;8.0;10.0;12.0\n"
HamburgOutput ==
  Berlin \o <<SEMI, 53, DOT, 53, SEMI, 53, DOT, 53, SEMI, 53, DOT, 53, NL>> \o
  Hamburg \o <<SEMI, 56, DOT, 48, SEMI, 49, 48, DOT, 48, SEMI, 49, 50, DOT, 48, NL>>

\* C3: when main returns, the output is one line "key;min;mean;max\n" per
\* distinct key of the buffer, the keys strictly ascending in byte order, and
\* the Hamburg buffer gives the two lines of the example for every worker
\* count and chunk size.
C3_OutputSortedLines ==
  main_pc = "exit" =>
    /\ output = ExpectedOutput(data)
    /\ Len(written) = Cardinality(KeysOf(data))
    /\ \A i, j \in 1..Len(written) :
         i < j => BytesLess(written[i].station, written[j].station)
    /\ data = HamburgBuffer => output = HamburgOutput

\* two keys, one a prefix of the other: "A" is written before "AB"
C3_Witness ==
  /\ main_pc = "exit"
  /\ Len(written) = 2
  /\ written[1].station = <<65>>
  /\ written[2].station = <<65, 66>>

(* ===================== records and observations ======================= *)
\* the entries contributed so far to the map of worker w: its own, and for
\* main also those of the handles it has folded in
RECURSIVE FoldedObs(_)
FoldedObs(h) == IF h = 0 THEN obs[0] ELSE FoldedObs(h - 1) \o obs[h]

Contributed(w) == IF w = 0 THEN FoldedObs(joined) ELSE obs[w]

RECURSIVE SumValues(_, _, _)
SumValues(o, k, i) ==
  IF i = 0 THEN 0
  ELSE (IF o[i][1] = k THEN o[i][2] ELSE 0) + SumValues(o, k, i - 1)

\* map m holds exactly the aggregate of the observations o
Aggregates(m, o) ==
  /\ DOMAIN m = {o[i][1] : i \in 1..Len(o)}
  /\ \A k \in DOMAIN m :
       LET I == {i \in 1..Len(o) : o[i][1] = k}
       IN /\ m[k].count = Cardinality(I)
          /\ m[k].count >= 1
          /\ m[k].sum = SumValues(o, k, Len(o))
          /\ \A i \in I : m[k].min <= o[i][2] /\ o[i][2] <= m[k].max
          /\ \E i \in I : m[k].min = o[i][2]
          /\ \E i \in I : m[k].max = o[i][2]

\* C5: in every state, every worker's map, and main's map while and after
\* it folds the joined maps in, holds for each key the count, the exact sum,
\* the least and the greatest of the observations contributed to it so far.
C5_RecordsAggregateObservations ==
  \A w \in Workers : Aggregates(map[w], Contributed(w))

\* main has folded in a handle's map, and a key now counts observations of
\* both with different values
C5_Witness ==
  /\ joined >= 1
  /\ \E k \in DOMAIN map[0] :
       /\ k \in DOMAIN map[1]
       /\ map[0][k].count >= 2
       /\ map[0][k].count > map[1][k].count
       /\ map[0][k].min < map[0][k].max

\* the partial maps at hand: the workers' maps and the empty map
PartialMaps == {map[w] : w \in Workers} \cup {EmptyMap}

\* the fold of the workers' maps in the order q
RECURSIVE FoldInOrder(_, _)
FoldInOrder(q, n) ==
  IF n = 0 THEN EmptyMap ELSE MergeMap(FoldInOrder(q, n - 1), map[q[n]])

WorkerOrders == {q \in [1..threads -> Workers] : \A i, j \in 1..threads : i # j => q[i] # q[j]}

\* C6: on the maps the workers return, the fold of partial maps is
\* commutative and associative, and folding the workers' maps gives one and
\* the same map in every order.
C6_MergeOrderIndependent ==
  (AllDone /\ joined = 0) =>
    /\ \A a, b \in PartialMaps : MergeMap(a, b) = MergeMap(b, a)
    /\ \A a, b, c \in PartialMaps :
         MergeMap(MergeMap(a, b), c) = MergeMap(a, MergeMap(b, c))
    /\ \A q \in WorkerOrders :
         FoldInOrder(q, threads) = FoldInOrder([i \in 1..threads |-> i - 1], threads)

\* two workers have returned with different records for one key
C6_Witness ==
  /\ AllDone
  /\ joined = 0
  /\ threads >= 2
  /\ \E k \in DOMAIN map[0] \cap DOMAIN map[1] :
       /\ map[0][k].max # map[1][k].max
       /\ map[0][k].min # map[1][k].min

\* C7: the mean of every entry written is sum/count rounded to the nearest
\* integer in scaled units, halves away from zero; sum 5 over count 2 is 3
\* and prints 0.3, sum -5 over count 2 is -3 and prints -0.3.
C7_MeanRoundsHalfAway ==
  \A i \in 1..Len(written) :
    LET rec == stations[i].rec
    IN /\ RoundsHalfAway(written[i].mean, rec.sum, rec.count)
       /\ (rec.sum = 5 /\ rec.count = 2) =>
            /\ written[i].mean = 3
            /\ (main_pc = "exit" /\ Len(stations) = 1) =>
                 output = <<65, SEMI, 48, DOT, 50, SEMI, 48, DOT, 51, SEMI, 48, DOT, 51, NL>>
       /\ (rec.sum = -5 /\ rec.count = 2) =>
            /\ written[i].mean = -3
            /\ (main_pc = "exit" /\ Len(stations) = 1) =>
                 output = <<65, SEMI, MINUS, 48, DOT, 51, SEMI, MINUS, 48, DOT, 51,
                            SEMI, MINUS, 48, DOT, 50, NL>>

\* a negative exact half and a negative total that is no multiple of the
\* count have been written
C7_Witness ==
  /\ main_pc = "exit"
  /\ \E i \in 1..Len(written) :
       /\ stations[i].rec.sum < 0
       /\ stations[i].rec.count = 2
       /\ stations[i].rec.sum % 2 = 1

\* C8: every entry written has min <= mean <= max.
C8_MeanBetweenMinAndMax ==
  \A i \in 1..Len(written) :
    written[i].min <= written[i].mean /\ written[i].mean <= written[i].max

\* an entry whose mean was rounded up onto its max
C8_Witness ==
  \E i \in 1..Len(written) :
    /\ written[i].min < written[i].max
    /\ written[i].mean = written[i].max
    /\ stations[i].rec.sum % stations[i].rec.count # 0

\* C9: the step in which main folds in an empty map leaves its map as it was.
C9_EmptyMergeIsIdentity ==
  [][(joined' = joined + 1 /\ map[joined + 1] = EmptyMap) => map'[0] = map[0]]_vars

\* main, holding records, has folded in the empty map of a worker that found
\* the cursor exhausted
C9_Witness ==
  /\ joined >= 1
  /\ map[joined] = EmptyMap
  /\ spans[joined] = {}
  /\ DOMAIN map[0] # {}

(* ===================== the parser on one record ======================= *)
IsDigit(c) == c >= ZERO /\ c <= ZERO + 9

\* v is an optional '-', 1 to n digits, '.', one digit
ValueInGrammar(v, n) ==
  /\ Len(v) >= 1
  /\ LET body == IF v[1] = MINUS THEN Tail(v) ELSE v
     IN /\ Len(body) >= 3 /\ Len(body) <= n + 2
        /\ body[Len(body) - 1] = DOT
        /\ \A i \in 1..Len(body) : i # Len(body) - 1 => IsDigit(body[i])

\* the buffer is one record "key;value" with the value in the grammar of at
\* most n integer digits, with or without its newline
OneRecord(d, n) ==
  /\ LineStarts(d) = {0}
  /\ Find(d, SEMI, 0, LineEnd(d, 0)) >= 1
  /\ ValueInGrammar(LineValue(d, 0), n)

\* everything handed to handle_entry by any worker
AllObs == FoldedObs(threads - 1)

\* the parser yielded the key before the first ';' and ten times the value
YieldsKeyAndValue(d) ==
  /\ AllDone
  /\ AllObs = << <<LineKey(d, 0), TimesTen(LineValue(d, 0))>> >>

\* C4 as stated: every record with an integer part of 1 to 3 digits yields
\* its key and ten times its value.
C4_ThreeDigitValues ==
  (OneRecord(data, 3) /\ AllEnded) => YieldsKeyAndValue(data)

\* C4: every record whose value is an optional '-', an integer part of 1 or
\* 2 digits and one fractional digit yields the bytes before the first ';'
\* as key and ten times the decimal value as value.
C4_TwoDigitValues ==
  (OneRecord(data, 2) /\ AllEnded) => YieldsKeyAndValue(data)

\* "X;-4.5" has been parsed to -45
C4_Witness ==
  /\ AllDone
  /\ data = <<88, SEMI, MINUS, 52, DOT, 53>>
  /\ AllObs = << <<(<<88>>), -45>> >>

\* the line starting at p has no ';', no '.' after it, or an integer part
\* that is not 1 to 3 bytes long
Malformed(d, p) ==
  LET semi == Find(d, SEMI, p, LineEnd(d, p))
      dot == IF semi = None THEN None ELSE Find(d, DOT, semi + 1, LineEnd(d, p))
  IN semi = None \/ dot = None \/ (dot - semi - 1) \notin 1..3

\* C10: once every thread has ended, a buffer with a malformed line has made
\* a worker panic.
C10_MalformedLinePanics ==
  (AllEnded /\ \E p \in LineStarts(data) : Malformed(data, p)) =>
    \E w \in Workers : pc[w] = "panicked"

(* ===================== joins and the merge ============================ *)
\* C11 as stated: in the step that folds a handle's map into main's map, no
\* worker is still running its work loop.
C11_NoFoldWhileAnyWorkerRuns ==
  [][joined' = joined + 1 => \A w \in Workers : pc[w] \in {"done", "panicked"}]_vars

\* C11: a handle's map is folded into main's map only after that handle's
\* thread has returned and after main's own work loop has returned; threads
\* whose handles come later in the join order may still be running.
C11_FoldOnlyReturnedWorker ==
  [][joined' = joined + 1 => (pc[0] = "done" /\ pc[joined + 1] = "done")]_vars

\* main has folded in the first handle's map while the second handle's thread
\* is still in its work loop
C11_Witness ==
  /\ threads = 3
  /\ joined = 1
  /\ pc[2] \in {"fetch", "parse"}
  /\ DOMAIN map[1] # {}

(* ===================== the cursor and the raw spans =================== *)
\* C12: the values fetch_add has returned are the successive multiples of
\* the chunk size, each returned once; the raw spans process_chunk was called
\* with are [offset, min(offset + chunk, len)) for the offsets inside the
\* buffer, are not empty and each ends where the next begins, so they are
\* pairwise disjoint and none was handed out twice; and once every worker has
\* returned they cover the buffer from 0 to its length.
C12_RawSpansPartitionBuffer ==
  /\ \A i \in 1..Len(fetched) : fetched[i] = (i - 1) * work_chunk
  /\ \A i \in 1..Len(calls) :
       /\ calls[i].start = fetched[i]
       /\ calls[i].start < Len(data)
       /\ calls[i].start < calls[i].end
       /\ calls[i].end = IF calls[i].start + work_chunk <= Len(data)
                         THEN calls[i].start + work_chunk ELSE Len(data)
       /\ i < Len(calls) => calls[i].end = calls[i + 1].start
  /\ AllDone =>
       /\ calls # << >>
       /\ calls[1].start = 0
       /\ calls[Len(calls)].end = Len(data)

\* every worker returned from a buffer whose length is a multiple of the
\* chunk size, handed out in as many calls as it has chunks
C12_Witness ==
  /\ AllDone
  /\ threads >= 2
  /\ work_chunk >= 2
  /\ Len(data) % work_chunk = 0
  /\ Len(calls) >= 2
  /\ Len(calls) * work_chunk = Len(data)
  /\ \A w \in Workers : spans[w] # {}

(* ============================ termination ============================= *)
\* C13: under fair scheduling every run over valid records reaches the state
\* in which every worker has received an offset at or past the buffer length
\* and returned, all handles are joined and main has written the output and
\* returned; and every iteration of a parse loop moves the start of the slice
\* forward by at least one byte.
C13_RunTerminates ==
  /\ <>(/\ AllDone
        /\ Cardinality({i \in DOMAIN fetched : fetched[i] >= Len(data)}) = threads
        /\ joined = threads - 1
        /\ main_pc = "exit")
  /\ [][\A w \in Workers : obs'[w] # obs[w] => start'[w] > start[w]]_vars

\* main returned after two workers took several turns at the cursor
C13_Witness ==
  /\ main_pc = "exit"
  /\ AllDone
  /\ threads >= 2
  /\ Len(fetched) > threads + 2
  /\ \A w \in Workers : obs[w] # << >>

(* ============================ key interning =========================== *)
\* the keys of a worker's observations in the order of their first occurrence
RECURSIVE FirstKeys(_)
FirstKeys(o) ==
  IF o = << >> THEN << >>
  ELSE LET f == FirstKeys(SubSeq(o, 1, Len(o) - 1))
           k == o[Len(o)][1]
       IN IF \E i \in DOMAIN f : f[i] = k THEN f ELSE Append(f, k)

\* the spans of worker w that hold at least one record
RecordSpans(w) == {sp \in spans[w] : sp.start < sp.end}

\* C14: within one worker, across all the spans it processes, the arena
\* allocations are exactly one per distinct key, made in the order in which
\* the keys first occur and of the key's length: a key already present causes
\* no allocation; and the worker's own map has exactly those keys.
C14_OneAllocationPerDistinctKey ==
  \A w \in Workers :
    /\ [i \in DOMAIN allocs[w] |-> allocs[w][i].key] = FirstKeys(obs[w])
    /\ \A i \in DOMAIN allocs[w] : allocs[w][i].len = Len(allocs[w][i].key)
    /\ (w # 0 \/ joined = 0) =>
         DOMAIN map[w] = {obs[w][i][1] : i \in DOMAIN obs[w]}

\* a worker met a key again in a later span and allocated nothing for it
C14_Witness ==
  \E w \in Workers :
    /\ pc[w] = "done"
    /\ Cardinality(RecordSpans(w)) >= 2
    /\ Len(obs[w]) = 3
    /\ Len(allocs[w]) = 2
    /\ obs[w][1][1] = obs[w][2][1]

(* ============================ arena ranges ============================ *)
\* the ranges returned by alloc to all workers so far
AllRanges == UNION {{allocs[w][i] : i \in DOMAIN allocs[w]} : w \in Workers}

\* two ranges share a byte of one block
Overlap(a, b) ==
  /\ a.ptr = b.ptr
  /\ a.off < b.off + b.len
  /\ b.off < a.off + a.len

\* C15: every byte range returned by alloc lies inside one block of BUMP_CAP
\* bytes (offset + length <= BUMP_CAP) whatever the requested length, and no
\* two returned ranges overlap.
C15_RangesInsideBlocks ==
  /\ \A a \in AllRanges : a.off + a.len <= BUMP_CAP
  /\ \A w \in Workers : \A i, j \in DOMAIN allocs[w] :
       i # j => ~Overlap(allocs[w][i], allocs[w][j])
  /\ \A v, w \in Workers : v # w =>
       \A i \in DOMAIN allocs[v], j \in DOMAIN allocs[w] :
         ~Overlap(allocs[v][i], allocs[w][j])

(* ========================= the final newline ========================== *)
EndsWithNewline(d) == d # << >> /\ At(d, Len(d) - 1) = NL

\* the buffer without its final newline, or with one appended
ToggleFinalNewline(d) ==
  IF EndsWithNewline(d) THEN Slice(d, 0, Len(d) - 1) ELSE d \o <<NL>>

\* C16: a buffer whose last record has no final newline and the same buffer
\* with the newline give the same aggregates; no worker panics on the last
\* record, the slice being parsed never reaches past the end of the buffer,
\* and the records handed to handle_entry are as many as the lines.
C16_FinalNewlineOptional ==
  /\ \A w \in Workers : start[w] <= Len(data) /\ end[w] <= Len(data)
  /\ AllEnded => (AllDone /\ ObsCount(threads - 1) = Cardinality(LineStarts(data)))
  /\ Merged => map[0] = SequentialMap(ToggleFinalNewline(data))

\* a two-line buffer without the final newline, merged from two workers of
\* which the second parsed the last record up to the end of the buffer
C16_Witness ==
  /\ Merged
  /\ ~EndsWithNewline(data)
  /\ Cardinality(LineStarts(data)) >= 2
  /\ threads >= 2
  /\ \E sp \in spans[1] : sp.start < sp.end /\ sp.end = Len(data)
  /\ map[0] = SequentialMap(data \o <<NL>>)

(* ============================ arena blocks ============================ *)
RECURSIVE AllocCount(_)
AllocCount(w) == IF w < 0 THEN 0 ELSE Len(allocs[w]) + AllocCount(w - 1)

\* C17: the blocks obtained from the system allocator are bounded by the
\* keys interned, not by the spans processed: beyond the first block of each
\* worker's arena a block is obtained only for a key that does not fit, so
\* there are at most as many blocks as workers plus interned keys.
C17_BlocksBoundedByKeys == nblocks <= threads + AllocCount(threads - 1)

(* ====================== output after the merge ======================== *)
\* C18: nothing is written to the output before every worker has returned
\* and every partial map has been merged into the global map; when the input
\* cannot be opened (no thread is ever spawned) or a worker panics while
\* parsing, no output is ever written and main does not reach the output
\* loop.
C18_NoOutputBeforeMerge ==
  /\ (output # << >> \/ main_pc \in {"write", "exit"}) =>
       (AllDone /\ joined = threads - 1)
  /\ (\E w \in Workers : pc[w] \in {"panicked", "unspawned"}) =>
       (output = << >> /\ written = << >> /\ main_pc \in {"scope", "panicked"})

\* a spawned worker panicked on its span after main's own work loop had
\* aggregated a record; main panicked at the join and nothing was written
C18_Witness ==
  /\ main_pc = "panicked"
  /\ threads >= 2
  /\ pc[0] = "done"
  /\ \E w \in Workers : pc[w] = "panicked"
  /\ DOMAIN map[0] # {}
  /\ output = << >>

(* ========================= rendered numbers =========================== *)
InFixedRange(n) == n >= -999 /\ n <= 999

\* optional '-', one or two digits, '.', one digit
IsRendered(b) ==
  LET u == IF b # << >> /\ b[1] = MINUS THEN Tail(b) ELSE b
  IN /\ Len(u) \in {3, 4}
     /\ u[Len(u) - 1] = DOT
     /\ \A i \in DOMAIN u : i # Len(u) - 1 => IsDigit(u[i])

\* the three numbers of the output line that starts at p: the bytes between
\* its semicolons and up to its newline
NumbersOfLine(p) ==
  LET q == LineEnd(output, p)
      S == {i \in p..(q - 1) : At(output, i) = SEMI}
      s1 == SetMin(S)
      s2 == SetMin(S \ {s1})
      s3 == SetMin(S \ {s1, s2})
  IN IF Cardinality(S) # 3 THEN << >>
     ELSE <<Slice(output, s1 + 1, s2), Slice(output, s2 + 1, s3),
            Slice(output, s3 + 1, q)>>

\* C19: over valid records main never reaches the arm of format_fixed marked
\* unreachable: every min, mean and max of the merged map lies in -999..=999,
\* and every number in the output is an optional '-', one or two digits, a
\* '.' and one digit.
C19_FormattedNumbersInRange ==
  /\ main_pc # "panicked"
  /\ \A i \in DOMAIN stations :
       LET rec == stations[i].rec
       IN /\ InFixedRange(rec.min) /\ InFixedRange(rec.max)
          /\ InFixedRange(Mean(rec.sum, rec.count))
          /\ format_fixed(rec.min).ok /\ format_fixed(rec.max).ok
          /\ format_fixed(Mean(rec.sum, rec.count)).ok
  /\ \A p \in LineStarts(output) :
       LET N == NumbersOfLine(p)
       IN Len(N) = 3 /\ \A i \in 1..3 : IsRendered(N[i])

\* main wrote a line whose min is -99.9 and whose max is 99.9, the ends of
\* the range
C19_Witness ==
  /\ main_pc = "exit"
  /\ \E i \in DOMAIN written : written[i].min = -999 /\ written[i].max = 999
  /\ \E p \in LineStarts(output) :
       LET N == NumbersOfLine(p)
       IN Len(N) = 3 /\ Len(N[1]) = 5 /\ Len(N[3]) = 4

(* ===================== decoding by integer length ===================== *)
\* the bytes of the record's value before its '.', and the byte after it
IntegerPart(d) == SubSeq(LineValue(d, 0), 1, Len(LineValue(d, 0)) - 2)
FractionByte(d) == LineValue(d, 0)[Len(LineValue(d, 0))]

\* the value the claim gives for an integer part ip of 1 to 3 bytes and the
\* fractional byte fb
ByLength(ip, fb) ==
  LET L == Len(ip)
      d(i) == ip[i + 1] - ZERO
      f == fb - ZERO
  IN IF L = 1 THEN d(0) * 10 + f
     ELSE IF L = 2 /\ ip[1] # MINUS THEN d(0) * 100 + d(1) * 10 + f
     ELSE IF L = 2 THEN -(d(1) * 10 + f)
     ELSE -(d(1) * 100 + d(2) * 10 + f)

\* C20: the value handed to handle_entry for a record whose integer part is
\* L bytes long is d0*10+f for L = 1, d0*100+d1*10+f for L = 2 without '-',
\* -(d1*10+f) for L = 2 with '-', and -(d1*100+d2*10+f) for L = 3 whatever
\* the first byte, so never positive for L = 3.
C20_DecodedByIntegerLength ==
  (OneRecord(data, 3) /\ AllEnded /\ Len(IntegerPart(data)) <= 3) =>
    /\ AllDone
    /\ AllObs = << <<LineKey(data, 0),
                     ByLength(IntegerPart(data), FractionByte(data))>> >>
    /\ Len(IntegerPart(data)) = 3 => AllObs[1][2] <= 0

\* "A;199.9" has been parsed to -999
C20_Witness ==
  /\ AllDone
  /\ data = <<65, SEMI, 49, 57, 57, DOT, 57>>
  /\ AllObs = << <<(<<65>>), -999>> >>
====
